---------------------------- MODULE Spec2Model ----------------------------
(***************************************************************************)
(* Model of examples/molecules/main.cpp (meshutils): the solvent excluded  *)
(* surface example.  The program is modelled component by component:       *)
(*                                                                         *)
(*   SpecParFor   par_for on its own, fn counting its calls                *)
(*   Spec         the constructor molecules::molecules as a pipeline: the  *)
(*                chain selector loop, the aggregation, the bounding box   *)
(*                fold, the passes, and the output file                    *)
(*   SpecBand     zsorter / lower_bound / upper_bound / the y filter       *)
(*   SpecFill     the accessible and the excluded fill, run by par_for     *)
(*   SpecColor    the colored_atoms filter and egen                        *)
(*                                                                         *)
(* Floats are modelled by integers: positions, radii and the grid spacing  *)
(* are whole numbers of one length unit, so squared distances are exact.   *)
(* Colors are fixed point numbers with ColorScale steps per unit.          *)
(***************************************************************************)
EXTENDS Integers, Sequences, FiniteSets, TLC

(***************************************************************************)
(* Bounds of the model.                                                    *)
(***************************************************************************)
MaxCpus == 2          \* hardware_concurrency() reports 0..MaxCpus
MaxBegin == 1         \* par_for's begin is drawn from 0..MaxBegin
MaxEnd == 3           \* par_for's end is drawn from 0..MaxEnd
NumLetters == 3       \* chain letters 'A' .. 'A' + NumLetters - 1
MaxLen == 3           \* longest --chains text
MaxChainAtoms == 1    \* most atoms the decoder returns for one chain
MaxSpacing == 3       \* grid_spacing is drawn from 1..MaxSpacing
MaxCoord == 4         \* largest coordinate of an atom or a mesh vertex
MaxBandLen == 3       \* most vertices of amesh under SpecBand
MaxSlab == 3          \* the slabs z and rows y queried under SpecBand
MaxXDim == 1          \* xdim is drawn from 1..MaxXDim under SpecFill
MaxYDim == 2          \* ydim is drawn from 1..MaxYDim under SpecFill
MaxZDim == 2          \* zdim is drawn from 1..MaxZDim under SpecFill
MaxAtoms == 1         \* most atoms under SpecFill
MaxRadius == 1        \* radii are drawn from 1..MaxRadius
MaxFillBand == 2      \* most vertices of amesh under SpecFill
MaxColorAtoms == 2    \* most atoms under SpecColor
ColorScale == 10      \* fixed point steps per unit of a color component

(***************************************************************************)
(* Program constants.                                                      *)
(***************************************************************************)
water_radius == 2
FLT_BIG == 1000000000 \* stands for 1e37f: above every squared distance

VARIABLES
  \* par_for
  hardware_concurrency, \* what std::thread::hardware_concurrency() reports
  begin, end, fnkind,   \* par_for's arguments; fnkind names the lambda fn
  idx,                  \* std::atomic<int> idx
  num_cpus,             \* int num_cpus
  futures,              \* cpu -> "claim" | "call" | "done": the async task
  wi,                   \* cpu -> the task's local int i
  ppc,                  \* "entry" | "running" | "returned"
  calls,                \* index -> number of completed calls fn(index)
  callers               \* index -> the cpus that called fn(index)

parVars == <<hardware_concurrency, begin, end, fnkind, idx, num_cpus,
             futures, wi, ppc, calls, callers>>

VARIABLES
  \* molecules::molecules
  pc,                   \* where the constructor stands
  mode,                 \* what the argument loop decided: usage, list, run
  chains,               \* const char *chains, without its final NUL
  p,                    \* const char *p, as a 1-based index into chains
  addChainCalls,        \* the chainIDs passed to addChain, in order
  pdbCount,             \* the decoded file: letter -> its number of atoms
  pos,                  \* std::vector<glm::vec3> pos
  garbage,              \* TRUE once min and max hold what pos[0] of an
                        \* empty vector happened to read
  stdout,               \* the messages printed so far
  fileState             \* the output file: absent, old, empty, written

mainVars == <<pc, mode, chains, p, addChainCalls, pdbCount, pos, garbage,
              stdout, fileState>>

VARIABLES
  \* the grid, the fields and the band
  grid_spacing,         \* float grid_spacing
  min,                  \* glm::vec3 min, the grid's corner
  xdim, ydim, zdim,     \* the grid's dimensions
  radii,                \* std::vector<float> radii
  accessible,           \* std::vector<float> accessible, slot -> value
  excluded,             \* std::vector<float> excluded, slot -> value
  zsorter,              \* std::vector<glm::vec3> zsorter
  bp, bq,               \* the iterators p and q into zsorter, 0-based
  zrow, yrow,           \* the slab z and the row y of the query
  ysorter,              \* std::vector<glm::vec3> ysorter
  wcount,               \* slot -> stores into it in the running pass
  writer,               \* slot -> the cpus that stored into it
  fpc                   \* where the field code stands

gridVars == <<grid_spacing, min, xdim, ydim, zdim, radii, accessible,
              excluded, zsorter, bp, bq, zrow, yrow, ysorter,
              wcount, writer, fpc>>

VARIABLES
  \* the colors
  colors,               \* std::vector<glm::vec4> colors
  colored_atoms,        \* std::vector<colored_atom> colored_atoms
  exyz,                 \* glm::vec3 xyz of the running egen
  color,                \* glm::vec4 color of the running egen
  ci,                   \* size_t i of the running egen, 1-based
  cpc                   \* where the color code stands

colorVars == <<colors, colored_atoms, exyz, color, ci, cpc>>

vars == <<parVars, mainVars, gridVars, colorVars>>
notMain == <<parVars, gridVars, colorVars>>
notPar == <<mainVars, gridVars, colorVars>>

Dash == 45
FirstLetter == 65
Letters == FirstLetter .. (FirstLetter + NumLetters - 1)
IndexSpace == (0 - 1) .. (MaxEnd + MaxZDim + MaxCpus + 1)

\* The components a specification leaves alone stay as follows.
ParIdle ==
  /\ begin = 0 /\ end = 0 /\ fnkind = "none" /\ idx = 0 /\ num_cpus = 0
  /\ futures = <<>> /\ wi = <<>> /\ ppc = "entry"
  /\ calls = [i \in IndexSpace |-> 0]
  /\ callers = [i \in IndexSpace |-> {}]

MainIdle ==
  /\ pc = "off" /\ mode = "run" /\ chains = <<>> /\ p = 1
  /\ addChainCalls = <<>> /\ pdbCount = [c \in Letters |-> 0]
  /\ pos = <<>> /\ garbage = FALSE /\ stdout = <<>>
  /\ fileState = "absent"

GridIdle ==
  /\ grid_spacing = 1 /\ min = <<0, 0, 0>>
  /\ xdim = 0 /\ ydim = 0 /\ zdim = 0
  /\ radii = <<>> /\ accessible = <<>> /\ excluded = <<>>
  /\ zsorter = <<>> /\ bp = 0 /\ bq = 0
  /\ zrow = 0 /\ yrow = 0 /\ ysorter = <<>>
  /\ wcount = <<>> /\ writer = <<>> /\ fpc = "off"

ColorIdle ==
  /\ colors = <<>> /\ colored_atoms = <<>> /\ exyz = <<0, 0, 0>>
  /\ color = <<0, 0, 0, 0>> /\ ci = 1 /\ cpc = "off"

Min2(a, b) == IF a < b THEN a ELSE b
Max2(a, b) == IF a > b THEN a ELSE b

(***************************************************************************)
(* par_for (main.cpp 38-59).                                               *)
(***************************************************************************)
Cpus == 0 .. (num_cpus - 1)

\* line 50: if (i >= end) break;
ShouldBreakOffByOne(i, e) == i > e
ShouldBreak(i, e) == i >= e

\* lines 40-45: idx = begin; num_cpus = hardware_concurrency(); one async
\* task per cpu.  With num_cpus = 0 the vector of futures is empty.
ParForEnter(b, e, kind) ==
  /\ begin' = b
  /\ end' = e
  /\ fnkind' = kind
  /\ idx' = b
  /\ num_cpus' = hardware_concurrency
  /\ futures' = [cpu \in 0 .. (hardware_concurrency - 1) |-> "claim"]
  /\ wi' = [cpu \in 0 .. (hardware_concurrency - 1) |-> 0]
  /\ ppc' = "running"
  /\ calls' = [i \in IndexSpace |-> 0]
  /\ callers' = [i \in IndexSpace |-> {}]
  /\ UNCHANGED hardware_concurrency

\* lines 47-50: int i = idx++; if (i >= end) break;
ClaimStep(cpu) ==
  /\ ppc = "running"
  /\ cpu \in Cpus
  /\ futures[cpu] = "claim"
  /\ idx' = idx + 1
  /\ wi' = [wi EXCEPT ![cpu] = idx]
  /\ futures' = [futures EXCEPT ![cpu] =
                   IF ShouldBreak(idx, end) THEN "done" ELSE "call"]
  /\ UNCHANGED <<hardware_concurrency, begin, end, fnkind, num_cpus, ppc,
                 calls, callers>>

\* line 51: fn(i) has run to its end; what every fn does to par_for's record
CallRecord(cpu) ==
  /\ ppc = "running"
  /\ cpu \in Cpus
  /\ futures[cpu] = "call"
  /\ futures' = [futures EXCEPT ![cpu] = "claim"]
  /\ calls' = [calls EXCEPT ![wi[cpu]] = @ + 1]
  /\ callers' = [callers EXCEPT ![wi[cpu]] = @ \cup {cpu}]
  /\ UNCHANGED <<hardware_concurrency, begin, end, fnkind, idx, num_cpus,
                 wi, ppc>>

\* lines 55-58: futures[cpu].get() for every cpu, then return
ParForJoin ==
  /\ ppc = "running"
  /\ \A cpu \in Cpus : futures[cpu] = "done"
  /\ ppc' = "returned"
  /\ UNCHANGED <<hardware_concurrency, begin, end, fnkind, idx, num_cpus,
                 futures, wi, calls, callers>>

(***************************************************************************)
(* The band: zsorter and its two-stage query (main.cpp 229-260).           *)
(***************************************************************************)
SeqsUpTo(S, n) == UNION {[1 .. k -> S] : k \in 0 .. n}

Abs(a) == IF a < 0 THEN 0 - a ELSE a

\* line 236: cmpz
cmpz(a, b) == a[3] < b[3]

\* line 238: std::sort(zsorter.begin(), zsorter.end(), cmpz) leaves some
\* permutation that cmpz orders; equal z may come out in any order
SortedByZ(s) ==
  LET n == Len(s)
      perms == {f \in [1 .. n -> 1 .. n] : \A i, j \in 1 .. n :
                                             i # j => f[i] # f[j]}
      outs == {[k \in 1 .. n |-> s[f[k]]] : f \in perms}
  IN {t \in outs : \A k \in 1 .. (n - 1) : ~cmpz(t[k + 1], t[k])}

\* line 248: std::lower_bound(first, first + count, value, cmpz), 0-based
RECURSIVE lower_bound(_, _, _, _)
lower_bound(s, first, count, value) ==
  IF count <= 0 THEN first
  ELSE LET step == count \div 2
           it == first + step
       IN IF cmpz(s[it + 1], value)
          THEN lower_bound(s, it + 1, count - (step + 1), value)
          ELSE lower_bound(s, first, step, value)

\* line 249 with the test of lower_bound: the first element not below value
RECURSIVE upper_bound_as_lower(_, _, _, _)
upper_bound_as_lower(s, first, count, value) ==
  IF count <= 0 THEN first
  ELSE LET step == count \div 2
           it == first + step
       IN IF cmpz(s[it + 1], value)
          THEN upper_bound_as_lower(s, it + 1, count - (step + 1), value)
          ELSE upper_bound_as_lower(s, first, step, value)

\* line 249: std::upper_bound(first, first + count, value, cmpz), 0-based
RECURSIVE upper_bound(_, _, _, _)
upper_bound(s, first, count, value) ==
  IF count <= 0 THEN first
  ELSE LET step == count \div 2
           it == first + step
       IN IF ~cmpz(value, s[it + 1])
          THEN upper_bound(s, it + 1, count - (step + 1), value)
          ELSE upper_bound(s, first, step, value)

\* lines 200, 202, 204: z * grid_spacing + min.z, and so for y and x
GridPos(k, axis) == k * grid_spacing + min[axis]

\* line 248: the iterator p of slab z
BandLow(z) ==
  lower_bound(zsorter, 0, Len(zsorter),
              <<0, 0, GridPos(z, 3) - (water_radius + grid_spacing)>>)

\* line 249: the iterator q of slab z
BandHigh(z) ==
  upper_bound(zsorter, 0, Len(zsorter),
              <<0, 0, GridPos(z, 3) + (water_radius + grid_spacing)>>)

\* line 257: the test of the y filter
NearRow(r, y) == Abs(r[2] - GridPos(y, 2)) <= water_radius + grid_spacing

\* lines 255-260: ysorter, from the elements r of [p, q) in order
RowBand(lo, hi, y) ==
  LET Keep(r) == NearRow(r, y)
  IN SelectSeq(SubSeq(zsorter, lo + 1, hi), Keep)

(***************************************************************************)
(* SpecBand: zsorter is built from the vertices of amesh and sorted, then  *)
(* queried slab by slab and row by row as the excluded lambda does.        *)
(***************************************************************************)
BandPoints ==
  {<<0, y, z>> : y \in {0, MaxCoord}, z \in 0 .. MaxCoord}

MinCorners == {<<0, 0, 0>>, <<0 - 1, 0 - 1, 0 - 1>>}

InitBand ==
  /\ hardware_concurrency = 0 /\ ParIdle /\ MainIdle /\ ColorIdle
  /\ grid_spacing \in 1 .. MaxSpacing
  /\ min \in MinCorners
  /\ xdim = 0 /\ ydim = 0 /\ zdim = 0
  /\ radii = <<>> /\ accessible = <<>> /\ excluded = <<>>
  /\ zsorter = <<>> /\ bp = 0 /\ bq = 0
  /\ zrow = 0 /\ yrow = 0 /\ ysorter = <<>>
  /\ wcount = <<>> /\ writer = <<>> /\ fpc = "collect"

\* lines 227-238: amesh comes back from the extractor with its vertices
\* avertices; push_back every vertex position, then sort
B_Sort ==
  /\ fpc = "collect"
  /\ \E avertices \in SeqsUpTo(BandPoints, MaxBandLen) :
       zsorter' \in SortedByZ(avertices)
  /\ fpc' = "sorted"
  /\ UNCHANGED <<grid_spacing, min, xdim, ydim, zdim, radii, accessible,
                 excluded, bp, bq, zrow, yrow, ysorter, wcount, writer>>
  /\ UNCHANGED <<parVars, mainVars, colorVars>>

\* lines 244-249: the lambda entered for slab z
B_Slab ==
  /\ fpc \in {"sorted", "row"}
  /\ \E z \in 0 .. MaxSlab :
       /\ zrow' = z
       /\ bp' = BandLow(z)
       /\ bq' = BandHigh(z)
  /\ ysorter' = <<>>
  /\ fpc' = "slab"
  /\ UNCHANGED <<grid_spacing, min, xdim, ydim, zdim, radii, accessible,
                 excluded, zsorter, yrow, wcount, writer>>
  /\ UNCHANGED <<parVars, mainVars, colorVars>>

\* lines 251-260: one turn of the y loop, to the end of the filter
B_Row ==
  /\ fpc \in {"slab", "row"}
  /\ \E y \in 0 .. MaxSlab :
       /\ yrow' = y
       /\ ysorter' = RowBand(bp, bq, y)
  /\ fpc' = "row"
  /\ UNCHANGED <<grid_spacing, min, xdim, ydim, zdim, radii, accessible,
                 excluded, zsorter, bp, bq, zrow, wcount, writer>>
  /\ UNCHANGED <<parVars, mainVars, colorVars>>

NextBand == B_Sort \/ B_Slab \/ B_Row

SpecBand == InitBand /\ [][NextBand]_vars

(***************************************************************************)
(* The fields (main.cpp 193-216 and 240-283).                              *)
(***************************************************************************)
\* lines 193-195: the lambda idx (idx names par_for's counter here)
gridIdx(x, y, z) == ((z * (ydim + 1)) + y) * (xdim + 1) + x

\* lines 198, 241: the size of a field
NumSlots == (xdim + 1) * (ydim + 1) * (zdim + 1)

\* glm::dot(a - b, a - b)
Dist2(a, b) ==
  (a[1] - b[1]) * (a[1] - b[1]) + (a[2] - b[2]) * (a[2] - b[2])
    + (a[3] - b[3]) * (a[3] - b[3])

\* lines 204, 263: glm::vec3 xyz
Vertex(x, y, z) == <<GridPos(x, 1), GridPos(y, 2), GridPos(z, 3)>>

\* lines 206-212: the loop over the atoms from atom i on
RECURSIVE AccessibleFold(_, _, _)
AccessibleFold(value, xyz, i) ==
  IF i > Len(pos) THEN value
  ELSE LET d2 == Dist2(xyz, pos[i])
           r2 == (radii[i] + water_radius) * (radii[i] + water_radius)
       IN AccessibleFold(Min2(value, d2 - r2), xyz, i + 1)

\* lines 204-213: the value stored for vertex (x, y, z)
AccessibleAt(x, y, z) == AccessibleFold(FLT_BIG, Vertex(x, y, z), 1)

\* line 242: float outside_value
outside_value_positive == water_radius * water_radius
outside_value == 0 - (water_radius * water_radius)

\* lines 268-271: the loop over ysorter from element k on
RECURSIVE NearestFold(_, _, _, _)
NearestFold(value, xyz, ys, k) ==
  IF k > Len(ys) THEN value
  ELSE NearestFold(Min2(value, Dist2(xyz, ys[k])), xyz, ys, k + 1)

\* lines 263-280: the value stored for vertex (x, y, z), ys the row's ysorter
ExcludedAt(x, y, z, ys) ==
  IF accessible[gridIdx(x, y, z)] < 0
  THEN LET value == NearestFold(FLT_BIG, Vertex(x, y, z), ys, 1)
       IN IF value = FLT_BIG
          THEN outside_value
          ELSE value - water_radius * water_radius
  ELSE outside_value

\* lines 201-203, 251-262: the vertices (x, y) of a slab in loop order,
\* y outside and x inside
SlabCell(k) == <<(k - 1) % (xdim + 1), (k - 1) \div (xdim + 1)>>
SlabCells == 1 .. ((xdim + 1) * (ydim + 1))

\* lines 213, 280: the slots idx(x, y, z) a lambda stores into for slab z,
\* in order
SlabSlots(z) ==
  [k \in SlabCells |-> gridIdx(SlabCell(k)[1], SlabCell(k)[2], z)]

\* lines 199-216: the values the accessible lambda stores for slab z
AccessibleValues(z) ==
  [k \in SlabCells |-> AccessibleAt(SlabCell(k)[1], SlabCell(k)[2], z)]

\* lines 243-283: the values the excluded lambda stores for slab z; p and q
\* are found once for the slab, ysorter once for each row
ExcludedValues(z) ==
  LET lo == BandLow(z)
      hi == BandHigh(z)
  IN [k \in SlabCells |->
        ExcludedAt(SlabCell(k)[1], SlabCell(k)[2], z,
                   RowBand(lo, hi, SlabCell(k)[2]))]

\* lines 213, 280: field[idx(x, y, z)] = value for the stores in order, the
\* last store into a slot standing
StoreAll(field, slots, values) ==
  [s \in DOMAIN field |->
     LET ks == {k \in DOMAIN slots : slots[k] = s}
     IN IF ks = {} THEN field[s]
        ELSE values[CHOOSE k \in ks : \A j \in ks : j <= k]]

(***************************************************************************)
(* SpecFill: the accessible pass, amesh and zsorter, the excluded pass.    *)
(***************************************************************************)
FillPoints ==
  {<<0, y, z>> : y \in {0, MaxCoord - 1}, z \in {0, MaxCoord}}

InitFill ==
  /\ hardware_concurrency \in 0 .. MaxCpus
  /\ ParIdle /\ ColorIdle
  /\ pc = "off" /\ mode = "run" /\ chains = <<>> /\ p = 1
  /\ addChainCalls = <<>> /\ pdbCount = [c \in Letters |-> 0]
  /\ garbage = FALSE /\ stdout = <<>> /\ fileState = "absent"
  /\ pos \in SeqsUpTo(FillPoints, MaxAtoms)
  /\ radii \in [1 .. Len(pos) -> 1 .. MaxRadius]
  /\ grid_spacing \in 1 .. MaxSpacing
  /\ min = <<0, 0, 0>>
  /\ xdim \in 1 .. MaxXDim /\ ydim \in 1 .. MaxYDim /\ zdim \in 1 .. MaxZDim
  /\ accessible = <<>> /\ excluded = <<>>
  /\ zsorter = <<>> /\ bp = 0 /\ bq = 0
  /\ zrow = 0 /\ yrow = 0 /\ ysorter = <<>>
  /\ wcount = <<>> /\ writer = <<>> /\ fpc = "start"

\* lines 197-199: std::vector<float> accessible(n), all 0, and par_for
F_Accessible ==
  /\ fpc = "start"
  /\ fpc' = "accessible"
  /\ accessible' = [s \in 0 .. (NumSlots - 1) |-> 0]
  /\ wcount' = [s \in 0 .. (NumSlots - 1) |-> 0]
  /\ writer' = [s \in 0 .. (NumSlots - 1) |-> {}]
  /\ ParForEnter(0, zdim + 1, "accessible")
  /\ UNCHANGED <<grid_spacing, min, xdim, ydim, zdim, radii, excluded,
                 zsorter, bp, bq, zrow, yrow, ysorter>>
  /\ UNCHANGED <<mainVars, colorVars>>

\* lines 47-50 in a worker of either pass
F_Claim ==
  /\ \E cpu \in Cpus : ClaimStep(cpu)
  /\ UNCHANGED <<mainVars, gridVars, colorVars>>

\* line 51 in a worker of either pass: the lambda runs for slab i
F_Call ==
  \E cpu \in Cpus :
    /\ CallRecord(cpu)
    /\ LET slots == SlabSlots(wi[cpu])
           hits(s) == {k \in DOMAIN slots : slots[k] = s}
       IN /\ accessible' =
               IF fnkind = "accessible"
               THEN StoreAll(accessible, slots, AccessibleValues(wi[cpu]))
               ELSE accessible
          /\ excluded' =
               IF fnkind = "excluded"
               THEN StoreAll(excluded, slots, ExcludedValues(wi[cpu]))
               ELSE excluded
          /\ wcount' = [s \in DOMAIN wcount |->
                          wcount[s] + Cardinality(hits(s))]
          /\ writer' = [s \in DOMAIN writer |->
                          IF hits(s) = {} THEN writer[s]
                          ELSE writer[s] \cup {cpu}]
    /\ UNCHANGED <<grid_spacing, min, xdim, ydim, zdim, radii, zsorter, bp,
                   bq, zrow, yrow, ysorter, fpc>>
    /\ UNCHANGED <<mainVars, colorVars>>

\* lines 55-58 of either pass
F_Join ==
  /\ ParForJoin
  /\ fpc' = IF fpc = "accessible" THEN "amesh" ELSE "done"
  /\ UNCHANGED <<grid_spacing, min, xdim, ydim, zdim, radii, accessible,
                 excluded, zsorter, bp, bq, zrow, yrow, ysorter, wcount,
                 writer>>
  /\ UNCHANGED <<mainVars, colorVars>>

\* lines 218-238: amesh comes back from the extractor with its vertices
\* avertices; push_back every vertex position, then sort
F_Mesh ==
  /\ fpc = "amesh"
  /\ fpc' = "meshed"
  /\ \E avertices \in SeqsUpTo(FillPoints, MaxFillBand) :
       zsorter' \in SortedByZ(avertices)
  /\ UNCHANGED <<grid_spacing, min, xdim, ydim, zdim, radii, accessible,
                 excluded, bp, bq, zrow, yrow, ysorter, wcount, writer>>
  /\ UNCHANGED <<parVars, mainVars, colorVars>>

\* lines 240-243: std::vector<float> excluded(n), all 0, and par_for
F_Excluded ==
  /\ fpc = "meshed"
  /\ fpc' = "excluded"
  /\ excluded' = [s \in 0 .. (NumSlots - 1) |-> 0]
  /\ wcount' = [s \in 0 .. (NumSlots - 1) |-> 0]
  /\ writer' = [s \in 0 .. (NumSlots - 1) |-> {}]
  /\ ParForEnter(0, zdim + 1, "excluded")
  /\ UNCHANGED <<grid_spacing, min, xdim, ydim, zdim, radii, accessible,
                 zsorter, bp, bq, zrow, yrow, ysorter>>
  /\ UNCHANGED <<mainVars, colorVars>>

NextFill ==
  F_Accessible \/ F_Claim \/ F_Call \/ F_Join \/ F_Mesh \/ F_Excluded

SpecFill == InitFill /\ [][NextFill]_vars

(***************************************************************************)
(* The colors (main.cpp 154-167 and 289-308).  A component 1.0f is         *)
(* ColorScale.                                                             *)
(***************************************************************************)
\* lines 161, 293: glm::vec4(1, 1, 1, 1)
white == <<ColorScale, ColorScale, ColorScale, ColorScale>>

\* the colors colorsByFunction gives: white, and two that are not
Palette ==
  {white, <<ColorScale, 0, 0, ColorScale>>, <<0, 0, ColorScale, ColorScale>>}

\* lines 162-167: the atoms whose color is not white, in order
ColoredAtoms ==
  LET idxs == SelectSeq([i \in 1 .. Len(colors) |-> i],
                        LAMBDA i : colors[i] # white)
  IN [k \in 1 .. Len(idxs) |->
        [color |-> colors[idxs[k]], pos |-> pos[idxs[k]],
         radius |-> radii[idxs[k]]]]

\* lines 295-298: float weight of a colored atom at xyz
Weight(a, xyz) == (a.radius * a.radius * 4 - Dist2(xyz, a.pos)) * 1

\* line 300: std::max(0.0f, std::min(weight, 1.0f)), weight a whole number
Clamp01(w) == Max2(0, Min2(w, 1))

\* the square root, rounded down
ISqrt(n) == CHOOSE r \in 0 .. n : r * r <= n /\ n < (r + 1) * (r + 1)

\* line 305: glm::normalize(color) = color * inversesqrt(dot(color, color))
normalize(c) ==
  LET len == ISqrt(c[1] * c[1] + c[2] * c[2] + c[3] * c[3] + c[4] * c[4])
  IN [k \in 1 .. 4 |-> (c[k] * ColorScale) \div len]

(***************************************************************************)
(* SpecColor: colored_atoms is filled, then egen runs for vertices.        *)
(***************************************************************************)
InitColor ==
  /\ hardware_concurrency = 0 /\ ParIdle
  /\ pc = "off" /\ mode = "run" /\ chains = <<>> /\ p = 1
  /\ addChainCalls = <<>> /\ pdbCount = [c \in Letters |-> 0]
  /\ garbage = FALSE /\ stdout = <<>> /\ fileState = "absent"
  /\ pos \in SeqsUpTo(FillPoints, MaxColorAtoms)
  /\ radii \in [1 .. Len(pos) -> 1 .. MaxRadius]
  /\ colors \in [1 .. Len(pos) -> Palette]
  /\ grid_spacing \in 1 .. MaxSpacing
  /\ min = <<0, 0, 0>>
  /\ xdim = 0 /\ ydim = 0 /\ zdim = 0
  /\ accessible = <<>> /\ excluded = <<>>
  /\ zsorter = <<>> /\ bp = 0 /\ bq = 0
  /\ zrow = 0 /\ yrow = 0 /\ ysorter = <<>>
  /\ wcount = <<>> /\ writer = <<>> /\ fpc = "off"
  /\ colored_atoms = <<>> /\ exyz = <<0, 0, 0>>
  /\ color = <<0, 0, 0, 0>> /\ ci = 1 /\ cpc = "filter"

\* lines 154-167
C_Filter ==
  /\ cpc = "filter"
  /\ colored_atoms' = ColoredAtoms
  /\ cpc' = "ready"
  /\ UNCHANGED <<colors, exyz, color, ci>>
  /\ UNCHANGED <<parVars, mainVars, gridVars>>

\* lines 289-293: egen(x, y, z) is entered by the extractor
C_EgenEnter ==
  /\ cpc \in {"ready", "returned"}
  /\ \E y \in 0 .. MaxSlab, z \in 0 .. MaxSlab : exyz' = Vertex(0, y, z)
  /\ color' = white
  /\ ci' = 1
  /\ cpc' = "loop"
  /\ UNCHANGED <<colors, colored_atoms>>
  /\ UNCHANGED <<parVars, mainVars, gridVars>>

\* lines 294-303: one turn of the loop over colored_atoms
C_EgenAtom ==
  /\ cpc = "loop" /\ ci <= Len(colored_atoms)
  /\ LET a == colored_atoms[ci]
         weight == Weight(a, exyz)
     IN color' = IF weight > 0
                 THEN [k \in 1 .. 4 |-> color[k] + a.color[k] * Clamp01(weight)]
                 ELSE color
  /\ ci' = ci + 1
  /\ UNCHANGED <<colors, colored_atoms, exyz, cpc>>
  /\ UNCHANGED <<parVars, mainVars, gridVars>>

\* lines 304-307: color.w = 0; normalize; color.w = 1; return
C_EgenReturn ==
  /\ cpc = "loop" /\ ci > Len(colored_atoms)
  /\ color' = [normalize([color EXCEPT ![4] = 0]) EXCEPT ![4] = ColorScale]
  /\ cpc' = "returned"
  /\ UNCHANGED <<colors, colored_atoms, exyz, ci>>
  /\ UNCHANGED <<parVars, mainVars, gridVars>>

NextColor == C_Filter \/ C_EgenEnter \/ C_EgenAtom \/ C_EgenReturn

SpecColor == InitColor /\ [][NextColor]_vars

(***************************************************************************)
(* molecules::molecules (main.cpp 63-329).                                 *)
(***************************************************************************)
RECURSIVE StringsOfLen(_)
StringsOfLen(n) ==
  IF n = 0 THEN {<<>>}
  ELSE {Append(s, c) : s \in StringsOfLen(n - 1), c \in Letters \cup {Dash}}
Selectors == UNION {StringsOfLen(n) : n \in 0 .. MaxLen}

\* p[k - 1] for a pointer at 1-based index k: the text ends with a NUL
CharAt(s, k) == IF k <= Len(s) THEN s[k] ELSE 0

\* the chars lo, lo + 1, ..., hi in order (empty when hi < lo)
CharRange(lo, hi) == [k \in 1 .. (hi - lo + 1) |-> lo + k - 1]

\* pdb.pos(chainID) of the decoder, which is not part of this file: the
\* positions of the chain's atoms, none for a chain the file does not have
pdb_pos(chainID) ==
  IF chainID \in Letters
  THEN [k \in 1 .. pdbCount[chainID] |-> <<chainID, k, 0>>]
  ELSE <<>>

\* lines 134-141 applied to a list of chainIDs in turn: pos.insert(...)
RECURSIVE addChain(_, _)
addChain(acc, ids) ==
  IF ids = <<>> THEN acc
  ELSE addChain(acc \o pdb_pos(Head(ids)), Tail(ids))

\* line 144: if (p[1] == '-' && p[2] && p[2] >= p[1])
IsRange(s, k) ==
  /\ CharAt(s, k + 1) = Dash
  /\ CharAt(s, k + 2) # 0
  /\ CharAt(s, k + 2) >= CharAt(s, k + 1)

\* lines 145-147 and 150: the chainIDs one turn of the selector loop passes
\* to addChain
SelectedAt(s, k) ==
  IF IsRange(s, k)
  THEN CharRange(CharAt(s, k + 1), CharAt(s, k + 2))
  ELSE <<CharAt(s, k)>>

\* lines 64-90: the argument loop, by its result
Init ==
  /\ pc = "args"
  /\ mode \in {"usage", "list", "run"}
  /\ chains \in Selectors
  /\ pdbCount \in [Letters -> 0 .. MaxChainAtoms]
  /\ fileState \in {"absent", "old"}
  /\ p = 1 /\ addChainCalls = <<>> /\ pos = <<>> /\ garbage = FALSE
  /\ stdout = <<>>
  /\ hardware_concurrency = 0 /\ ParIdle
  /\ GridIdle /\ ColorIdle

Goto(next) ==
  /\ pc' = next
  /\ UNCHANGED <<mode, chains, p, addChainCalls, pdbCount, pos, garbage,
                 stdout, fileState>>
  /\ UNCHANGED notMain

\* lines 94-105: the usage text, and return
Usage ==
  /\ pc = "args" /\ mode = "usage"
  /\ pc' = "exit"
  /\ stdout' = Append(stdout, "usage")
  /\ UNCHANGED <<mode, chains, p, addChainCalls, pdbCount, pos, garbage,
                 fileState>>
  /\ UNCHANGED notMain

\* lines 125-128: --list-chains
ListChains ==
  /\ pc = "args" /\ mode = "list"
  /\ pc' = "exit"
  /\ stdout' = Append(stdout, "chains")
  /\ UNCHANGED <<mode, chains, p, addChainCalls, pdbCount, pos, garbage,
                 fileState>>
  /\ UNCHANGED notMain

\* lines 107-132: read and decode the file, the empty vectors
Decode == pc = "args" /\ mode = "run" /\ Goto("select")

\* lines 143-152: one turn of the selector loop
SelectTurn ==
  /\ pc = "select" /\ CharAt(chains, p) # 0
  /\ addChainCalls' = addChainCalls \o SelectedAt(chains, p)
  /\ pos' = addChain(pos, SelectedAt(chains, p))
  /\ p' = IF IsRange(chains, p) THEN p + 3 ELSE p + 1
  /\ UNCHANGED <<pc, mode, chains, pdbCount, garbage, stdout, fileState>>
  /\ UNCHANGED notMain

\* line 143, *p == 0, then lines 154-167: colored_atoms (no read of pos
\* when colors is empty)
SelectEnd == pc = "select" /\ CharAt(chains, p) = 0 /\ Goto("bbox")

\* lines 169-170: min = pos[0]; max = pos[0]; of a vector with an atom
BboxInit == pc = "bbox" /\ pos # <<>> /\ Goto("fold")

\* lines 169-170 of an empty vector: operator[] past the end.  The read
\* faults, or it yields whatever lies there and the constructor goes on.
BboxInitEmpty ==
  /\ pc = "bbox" /\ pos = <<>>
  /\ \E faults \in BOOLEAN :
       /\ pc' = IF faults THEN "crashed" ELSE "fold"
       /\ garbage' = ~faults
  /\ UNCHANGED <<mode, chains, p, addChainCalls, pdbCount, pos, stdout,
                 fileState>>
  /\ UNCHANGED notMain

\* lines 171-191: the fold over pos, max_radius, the grid and its printf
GridSize ==
  /\ pc = "fold"
  /\ pc' = "accessible"
  /\ stdout' = Append(stdout, "dims")
  /\ UNCHANGED <<mode, chains, p, addChainCalls, pdbCount, pos, garbage,
                 fileState>>
  /\ UNCHANGED notMain

\* lines 197-227: the accessible pass and amesh
AccessiblePass ==
  /\ pc = "accessible"
  /\ pc' = "excluded"
  /\ stdout' = Append(stdout, "accessible")
  /\ UNCHANGED <<mode, chains, p, addChainCalls, pdbCount, pos, garbage,
                 fileState>>
  /\ UNCHANGED notMain

\* lines 229-310: zsorter, the excluded pass and emesh
ExcludedPass ==
  /\ pc = "excluded"
  /\ pc' = "open"
  /\ stdout' = Append(stdout, "excluded")
  /\ UNCHANGED <<mode, chains, p, addChainCalls, pdbCount, pos, garbage,
                 fileState>>
  /\ UNCHANGED notMain

\* lines 312-326: the file name, its printf, and std::ofstream eof(...),
\* which creates the file or truncates the one there, unless it cannot
OpenOutput ==
  /\ pc = "open"
  /\ pc' = "saveMesh"
  /\ stdout' = Append(stdout, "writing")
  /\ \E opened \in BOOLEAN :
       fileState' = IF opened THEN "empty" ELSE fileState
  /\ UNCHANGED <<mode, chains, p, addChainCalls, pdbCount, pos, garbage>>
  /\ UNCHANGED notMain

\* line 327: encoder.saveMesh(emesh) returns the bytes, or throws
SaveMesh ==
  /\ pc = "saveMesh"
  /\ \E thrown \in BOOLEAN : pc' = IF thrown THEN "aborted" ELSE "write"
  /\ UNCHANGED <<mode, chains, p, addChainCalls, pdbCount, pos, garbage,
                 stdout, fileState>>
  /\ UNCHANGED notMain

\* line 328: eof.write(...), on a stream that is open
WriteOutput ==
  /\ pc = "write"
  /\ pc' = "exit"
  /\ fileState' = IF fileState = "empty" THEN "written" ELSE fileState
  /\ UNCHANGED <<mode, chains, p, addChainCalls, pdbCount, pos, garbage,
                 stdout>>
  /\ UNCHANGED notMain

Next ==
  \/ Usage \/ ListChains \/ Decode \/ SelectTurn \/ SelectEnd
  \/ BboxInit \/ BboxInitEmpty \/ GridSize \/ AccessiblePass
  \/ ExcludedPass \/ OpenOutput \/ SaveMesh \/ WriteOutput

Spec == Init /\ [][Next]_vars

(***************************************************************************)
(* SpecParFor: par_for(begin, end, fn) with a fn that only counts.         *)
(***************************************************************************)
InitParFor ==
  /\ hardware_concurrency \in 0 .. MaxCpus
  /\ begin \in 0 .. MaxBegin
  /\ end \in 0 .. MaxEnd
  /\ fnkind = "count"
  /\ idx = 0 /\ num_cpus = 0
  /\ futures = <<>> /\ wi = <<>> /\ ppc = "entry"
  /\ calls = [i \in IndexSpace |-> 0]
  /\ callers = [i \in IndexSpace |-> {}]
  /\ MainIdle
  /\ GridIdle /\ ColorIdle

PF_Enter ==
  ppc = "entry" /\ ParForEnter(begin, end, "count") /\ UNCHANGED notPar
PF_Claim == \E cpu \in Cpus : ClaimStep(cpu) /\ UNCHANGED notPar
PF_Call == \E cpu \in Cpus : CallRecord(cpu) /\ UNCHANGED notPar
PF_Join == ParForJoin /\ UNCHANGED notPar

NextParFor == PF_Enter \/ PF_Claim \/ PF_Call \/ PF_Join

SpecParFor == InitParFor /\ [][NextParFor]_vars

(***************************************************************************)
(* Claims about par_for, under SpecParFor.                                 *)
(***************************************************************************)
InRange(i) == begin <= i /\ i < end

\* C1: with at least one worker, fn is never called for an index outside
\* [begin, end), never twice for an index inside it, and at the moment
\* par_for returns it has completed exactly once for every index inside
\* it, under every interleaving of the workers' claim steps.
C1_ExactlyOnce ==
  num_cpus >= 1 =>
    /\ \A i \in IndexSpace : ~InRange(i) => calls[i] = 0
    /\ \A i \in IndexSpace : calls[i] <= 1
    /\ \A cpu \in Cpus : futures[cpu] = "call" =>
         InRange(wi[cpu]) /\ calls[wi[cpu]] = 0
    /\ ppc = "returned" =>
         /\ \A i \in IndexSpace : InRange(i) => calls[i] = 1
         /\ \A cpu \in Cpus : futures[cpu] = "done"

\* C1's case: par_for has returned from a range of two or more indices that
\* two workers shared between them.
C1_Witness ==
  /\ ppc = "returned" /\ num_cpus >= 2 /\ end - begin >= 2
  /\ \E i, j \in IndexSpace : callers[i] = {0} /\ callers[j] = {1}

\* C5: par_for always runs at least one worker, so every index of a
\* non-empty range has been processed when par_for returns, also when the
\* reported hardware concurrency is 0.
C5_AtLeastOneWorker ==
  /\ ppc # "entry" => num_cpus >= 1
  /\ ppc = "returned" => \A i \in IndexSpace : InRange(i) => calls[i] = 1

(***************************************************************************)
(* Claims about molecules::molecules, under Spec.                          *)
(***************************************************************************)
\* A selector made of the tokens X and X-Y, X and Y letters.
RECURSIVE WellFormedFrom(_, _)
WellFormedFrom(s, k) ==
  IF k > Len(s) THEN TRUE
  ELSE /\ s[k] \in Letters
       /\ IF CharAt(s, k + 1) = Dash
          THEN CharAt(s, k + 2) \in Letters /\ WellFormedFrom(s, k + 3)
          ELSE WellFormedFrom(s, k + 1)

\* The reference expansion: X yields X; X-Y yields X, X+1, ..., Y, which is
\* nothing when Y < X.
RECURSIVE RefExpandFrom(_, _)
RefExpandFrom(s, k) ==
  IF k > Len(s) THEN <<>>
  ELSE IF CharAt(s, k + 1) = Dash
       THEN CharRange(s[k], s[k + 2]) \o RefExpandFrom(s, k + 3)
       ELSE <<s[k]>> \o RefExpandFrom(s, k + 1)

SelectorLoopDone == pc \notin {"off", "args", "select"} /\ mode = "run"

\* C2: once the selector loop has ended, the chainIDs it passed to addChain
\* are, in order, the reference expansion of the selector ("A-C" gives
\* A, B, C; "AC" gives A, C; "C-A" gives nothing).
C2_ChainExpansion ==
  (SelectorLoopDone /\ WellFormedFrom(chains, 1)) =>
    addChainCalls = RefExpandFrom(chains, 1)

Printed(msg) == \E k \in 1 .. Len(stdout) : stdout[k] = msg

\* C3: when the selection holds no atom, the constructor reports an
\* empty-selection error before the bounding box fold reads pos[0], and
\* never reaches the grid sizing or a field pass.
C3_EmptySelectionReported ==
  (SelectorLoopDone /\ pos = <<>> /\ pc # "bbox") =>
    /\ Printed("empty selection")
    /\ pc = "exit"
    /\ ~garbage

\* C6: the output file is created or truncated only after saveMesh has
\* succeeded; a run that fails or aborts leaves the file as it was.  (Stated
\* of the runs that selected an atom, which read no pos[0] that is not
\* there.)
C6_NoPartialOutput ==
  pos # <<>> =>
    /\ fileState \in {"empty", "written"} => pc \in {"write", "exit"}
    /\ pc = "aborted" => fileState \in {"absent", "old"}

(***************************************************************************)
(* Claims about the band, under SpecBand.                                  *)
(***************************************************************************)
Margin == water_radius + grid_spacing

\* the brute-force scan of the whole of zsorter with the same z and y bounds
BruteForceBand(z, y) ==
  LET InBox(r) == /\ GridPos(z, 3) - Margin <= r[3]
                  /\ r[3] <= GridPos(z, 3) + Margin
                  /\ Abs(r[2] - GridPos(y, 2)) <= Margin
  IN SelectSeq(zsorter, InBox)

\* C4: the list the two-stage filter produces for a slab z and a row y
\* holds exactly the points a brute-force scan of the sorted set selects
\* with zpos - m <= z <= zpos + m and |y - ypos| <= m, m = water_radius +
\* grid_spacing: none missing, none extra.
C4_BandQueryExact ==
  fpc = "row" => ysorter = BruteForceBand(zrow, yrow)

\* C4's case: a query over three points that keeps one, drops one by its z
\* and drops one by its y.
C4_Witness ==
  /\ fpc = "row" /\ Len(zsorter) = 3 /\ Len(ysorter) = 1
  /\ bq - bp = 2

(***************************************************************************)
(* Claims about the fields, under SpecFill.                                *)
(***************************************************************************)
GridTriples ==
  {<<x, y, z>> : x \in 0 .. xdim, y \in 0 .. ydim, z \in 0 .. zdim}

SlotOf(t) == gridIdx(t[1], t[2], t[3])

MinOf(S) == CHOOSE m \in S : \A n \in S : m <= n

\* the squared distances from vertex t to the band of its row, found by the
\* brute-force scan
RowDistances(t) ==
  LET band == BruteForceBand(t[3], t[2])
  IN {Dist2(Vertex(t[1], t[2], t[3]), band[k]) : k \in DOMAIN band}

ProbeSquared == water_radius * water_radius

ExpectedExcluded(t) ==
  IF accessible[SlotOf(t)] >= 0 \/ RowDistances(t) = {}
  THEN 0 - ProbeSquared
  ELSE MinOf(RowDistances(t)) - ProbeSquared

\* C8: after the excluded pass, excluded[idx(x,y,z)] is -(probe radius^2)
\* where accessible >= 0 or the row's band is empty, and elsewhere the least
\* squared distance to the row's band minus probe radius^2, for every
\* vertex of the grid.
C8_ExcludedField ==
  fpc = "done" => \A t \in GridTriples : excluded[SlotOf(t)] = ExpectedExcluded(t)

\* C8 for the runs par_for gave a worker.
ExcludedFieldWithWorkers == num_cpus >= 1 => C8_ExcludedField

ExcludedFieldFilled ==
  /\ fpc = "done" /\ num_cpus >= 1
  /\ \E t, u \in GridTriples :
       /\ accessible[SlotOf(t)] < 0 /\ RowDistances(t) # {}
       /\ accessible[SlotOf(u)] < 0 /\ RowDistances(u) = {}

InPass == fpc \in {"accessible", "amesh", "excluded", "done"}

\* idx maps the vertices one to one into [0, (xdim+1)(ydim+1)(zdim+1));
\* no slot is stored into twice or by two workers, no slab is run by two.
WritesDisjoint ==
  InPass =>
    /\ \A t, u \in GridTriples : t # u => SlotOf(t) # SlotOf(u)
    /\ \A t \in GridTriples : SlotOf(t) \in 0 .. (NumSlots - 1)
    /\ \A s \in DOMAIN wcount :
         wcount[s] <= 1 /\ Cardinality(writer[s]) <= 1
    /\ \A z \in IndexSpace : calls[z] <= 1 /\ Cardinality(callers[z]) <= 1

\* when the pass returns every slab was run by one worker and every slot
\* stored into once
WritesComplete ==
  (InPass /\ ppc = "returned") =>
    /\ \A z \in 0 .. zdim : calls[z] = 1 /\ Cardinality(callers[z]) = 1
    /\ \A s \in DOMAIN wcount :
         wcount[s] = 1 /\ Cardinality(writer[s]) = 1

\* C9: in a fill pass each z-slab is claimed by exactly one worker and idx
\* is one to one into the field, so in every interleaving each slot is
\* written exactly once per pass, by a single worker.
C9_OneWriterPerSlot == WritesDisjoint /\ WritesComplete

\* C9 for the runs par_for gave a worker.
OneWriterPerSlotWithWorkers == num_cpus >= 1 => C9_OneWriterPerSlot

OneWriterPerSlotShared ==
  /\ fpc = "done" /\ num_cpus >= 2
  /\ \E s, r \in DOMAIN writer : writer[s] = {0} /\ writer[r] = {1}

\* the vertices the excluded lambda has stored a value for
StoredExcluded ==
  IF fnkind = "excluded"
  THEN {t \in GridTriples : wcount[SlotOf(t)] >= 1}
  ELSE {}

\* the squared distances from vertex t to all of zsorter
SurfaceDistances(t) ==
  {Dist2(Vertex(t[1], t[2], t[3]), zsorter[k]) : k \in DOMAIN zsorter}

\* C10 as stated: a vertex inside the accessible volume and farther than
\* one probe radius from its nearest band point receives a negative value;
\* a vertex within one probe radius of the band, or outside the accessible
\* volume, does not.
C10_SignAsStated ==
  \A t \in StoredExcluded :
    /\ ( /\ accessible[SlotOf(t)] < 0
         /\ SurfaceDistances(t) # {}
         /\ MinOf(SurfaceDistances(t)) > ProbeSquared )
       => excluded[SlotOf(t)] < 0
    /\ ( \/ accessible[SlotOf(t)] >= 0
         \/ /\ SurfaceDistances(t) # {}
            /\ MinOf(SurfaceDistances(t)) <= ProbeSquared )
       => excluded[SlotOf(t)] >= 0

\* C10, amended: the value the excluded lambda stores for a vertex is
\* negative when the vertex is outside the accessible volume, when its
\* row's band is empty, and when it is inside and nearer than one probe
\* radius to its nearest band point of the row; it is positive when the
\* vertex is inside and farther than one probe radius from that point, and
\* zero at exactly one probe radius.
C10_SignConvention ==
  \A t \in StoredExcluded :
    LET v == excluded[SlotOf(t)]
        ds == RowDistances(t)
    IN /\ (accessible[SlotOf(t)] >= 0 \/ ds = {}) => v < 0
       /\ (accessible[SlotOf(t)] < 0 /\ ds # {}) =>
            /\ MinOf(ds) > ProbeSquared => v > 0
            /\ MinOf(ds) < ProbeSquared => v < 0
            /\ MinOf(ds) = ProbeSquared => v = 0

\* C10's case: the excluded pass has returned, having stored a value for a
\* vertex inside and far from the band, for one inside and near it, and for
\* one outside.
C10_Witness ==
  /\ fpc = "done"
  /\ \E t \in StoredExcluded :
       /\ accessible[SlotOf(t)] < 0 /\ RowDistances(t) # {}
       /\ MinOf(RowDistances(t)) > ProbeSquared
  /\ \E t \in StoredExcluded :
       /\ accessible[SlotOf(t)] < 0 /\ RowDistances(t) # {}
       /\ MinOf(RowDistances(t)) < ProbeSquared
  /\ \E t \in StoredExcluded : accessible[SlotOf(t)] >= 0

\* the excluded pass has stored a value for a vertex inside the accessible
\* volume whose row has no band, although zsorter is not empty
EmptyRowInside ==
  /\ fpc = "done" /\ zsorter # <<>>
  /\ \E t \in StoredExcluded :
       accessible[SlotOf(t)] < 0 /\ RowDistances(t) = {}

(***************************************************************************)
(* Claims about the colors, under SpecColor.                               *)
(***************************************************************************)
NoContribution ==
  \A k \in 1 .. Len(colored_atoms) : Weight(colored_atoms[k], exyz) <= 0

\* C7: when no colored atom contributes to a vertex (there is none, or
\* every weight radius^2*4 - squared distance is <= 0), egen returns the
\* neutral color (1,1,1,1) unchanged, not the normalized sum.
C7_NeutralFallback ==
  (cpc = "returned" /\ NoContribution) => color = white

=============================================================================
